---- MODULE Spec2Model ----
(***************************************************************************)
(* Model of pyrobolearn.tasks.task.Task: the orchestration object that     *)
(* binds one environment to one or more policies and drives reset / step / *)
(* run.  The environment and the policies are external collaborators: each *)
(* call the Task makes on them is one step of the model, and what          *)
(* env.step returns (reward, done) is chosen nondeterministically.         *)
(***************************************************************************)
EXTENDS Integers, Sequences, FiniteSets

(***************************************************************************)
(* Bounds of the model.                                                    *)
(***************************************************************************)
\* longest `policies` list handed to the constructor
MaxPolicies == 2
\* largest finite num_steps handed to run; also the cap on the step counter
\* of a run whose num_steps is None (np.infty)
MaxNumSteps == 2

(***************************************************************************)
(* Objects the client can hand to the constructor.                         *)
(***************************************************************************)
\* instances of Env
EnvObjs == {"env"}
\* an object that is not an instance of Env
NonEnvObjs == {"non_env"}
\* instances of Policy
PolicyObjs == {"p1", "p2"}
\* an element that is not a Policy (a character of the string "not a policy")
NonPolicyElems == {"chr"}
\* an object that is neither a Policy nor an Iterable (an int, None)
NonIterableObjs == {"int"}

\* rewards an env.step call can return
Rewards == {0, 1}

\* a number handed as, or held in, num_steps: an int, None, or np.infty
Finite(n) == [kind |-> "int", n |-> n]
NoneNumber == [kind |-> "None", n |-> 0]
Infty == [kind |-> "inf", n |-> 0]

RECURSIVE SeqsUpTo(_, _)
\* all sequences over S of length 0..n
SeqsUpTo(S, n) ==
    IF n = 0 THEN {<<>>}
    ELSE LET shorter == SeqsUpTo(S, n - 1)
         IN  shorter \cup {Append(s, x) : s \in {q \in shorter : Len(q) = n - 1}, x \in S}

\* a Python value handed as `policies`: a single object or an iterable (list,
\* tuple, str) of elements
Obj(x) == [kind |-> "object", items |-> <<x>>]
List(s) == [kind |-> "iterable", items |-> s]

\* the `environment` arguments the client tries
EnvironmentArgs == EnvObjs \cup NonEnvObjs
\* the `policies` arguments the client tries; the iterables are re-iterable
\* (lists, tuples, strings), not one-shot iterators
PoliciesArgs ==
    {Obj(x) : x \in PolicyObjs \cup NonIterableObjs}
    \cup {List(s) : s \in SeqsUpTo(PolicyObjs \cup NonPolicyElems, MaxPolicies)}

\* isinstance(environment, Env)
IsEnv(x) == x \in EnvObjs
\* isinstance(policies, collections.abc.Iterable)
IsIterable(v) == v.kind = "iterable"
\* isinstance(policy, Policy)
IsPolicy(x) == x \in PolicyObjs

VARIABLES
    args,           \* the arguments of the last constructor call
    built,          \* TRUE once a constructor call has returned a Task
    error,          \* the exception the last constructor call raised, or "none"
    env,            \* self.env
    policies,       \* self.policies
    _done,          \* self._done
    _succeeded,     \* self._succeeded
    op,             \* the Task method the client is in, or was in last: "none", "reset", "step", "run"
    pc,             \* position inside the running method, "idle" between calls
    i,              \* index (1-based) of the policy the current for loop is at
    deterministic,  \* step's argument
    render,         \* step's / run's argument
    rewards,        \* step's local list `rewards`
    num_steps,      \* run's num_steps after line 228: Finite(n) or Infty
    use_terminating_condition, \* run's argument
    t,              \* run's loop counter
    total_rewards,  \* run's accumulator
    retval,         \* what the last finished method returned
    calls,          \* collaborator calls made so far by the current (last) client call
    stepOut,        \* what the env.step calls of the Task.step in progress (just returned) returned
    nsteps,         \* number of Task.step calls that have returned in the current (last) client call
    firstDone,      \* which of them was the first to return with self._done true, 0 if none
    paid,           \* per policy position, the sum of the rewards env.step returned for its actions
    stepSum,        \* the component-wise sum of the vectors those Task.step calls returned
    entry,          \* when the current (last) client call was made: the flags, and whether
                    \* the call before it was a reset
    file            \* what the file that save writes and load reads holds

vars == <<args, built, error, env, policies, _done, _succeeded, op, pc, i, deterministic,
          render, rewards, num_steps, use_terminating_condition, t, total_rewards,
          retval, calls, stepOut, nsteps, firstDone, paid, stepSum,
          entry, file>>

\* what reset, step and run leave alone: the outcome of the constructor, and the
\* file system
taskVars == <<args, built, error, env, policies, file>>
stepArgs == <<deterministic, render>>
runVars == <<num_steps, use_terminating_condition, t, total_rewards>>
ledger == <<nsteps, firstDone, paid, stepSum>>

\* return values
NoValue == [kind |-> "unset", val |-> <<>>]
None == [kind |-> "None", val |-> <<>>]
Scalar(x) == [kind |-> "scalar", val |-> <<x>>]
Array(s) == [kind |-> "array", val |-> s]

\* the file does not exist
NoFile == [mode |-> "none", task |-> <<>>]

\* no constructor call yet
NoArgs == [environment |-> "none", policies |-> Obj("none")]

Init ==
    /\ args = NoArgs
    /\ built = FALSE
    /\ error = "none"
    /\ env = "none"
    /\ policies = <<>>
    /\ _done = FALSE
    /\ _succeeded = FALSE
    /\ op = "none"
    /\ pc = "idle"
    /\ i = 0
    /\ deterministic = TRUE
    /\ render = FALSE
    /\ rewards = <<>>
    /\ num_steps = Finite(0)
    /\ use_terminating_condition = FALSE
    /\ t = 0
    /\ total_rewards = <<>>
    /\ retval = NoValue
    /\ calls = <<>>
    /\ stepOut = <<>>
    /\ nsteps = 0
    /\ firstDone = 0
    /\ paid = <<>>
    /\ stepSum = <<>>
    /\ entry = [afterReset |-> FALSE, done |-> FALSE, succeeded |-> FALSE]
    /\ file = NoFile

(***************************************************************************)
(* Task.__init__                                                           *)
(***************************************************************************)
\* the check of `policies`, lines 82-90: the error raised, or the list stored
CheckPolicies(pols) ==
    IF IsIterable(pols)
    THEN IF \E k \in 1..Len(pols.items) : ~IsPolicy(pols.items[k])
         THEN [error |-> "TypeError: policies element", policies |-> <<>>]
         ELSE [error |-> "none", policies |-> pols.items]
    ELSE IF IsPolicy(pols.items[1])
         THEN [error |-> "none", policies |-> <<pols.items[1]>>]
         ELSE [error |-> "TypeError: policies", policies |-> <<>>]

\* mutant of Construct: the policies are checked before the environment
ConstructPoliciesFirst(environment, pols) ==
    LET c == CheckPolicies(pols)
    IN  IF c.error # "none"
        THEN [error |-> c.error, env |-> "none", policies |-> <<>>]
        ELSE IF ~IsEnv(environment)
             THEN [error |-> "TypeError: environment", env |-> "none", policies |-> <<>>]
             ELSE [error |-> "none", env |-> environment, policies |-> c.policies]

\* what Task(environment, pols) does: the error raised ("none" on success) and
\* the fields stored
Construct(environment, pols) ==
    IF ~IsEnv(environment)
    THEN [error |-> "TypeError: environment", env |-> "none", policies |-> <<>>]
    ELSE LET c == CheckPolicies(pols)
         IN  [error |-> c.error,
              env |-> IF c.error = "none" THEN environment ELSE "none",
              policies |-> c.policies]

\* the client calls Task(environment, pols)
TaskInit(environment, pols) ==
    /\ ~built
    /\ pc = "idle"
    /\ args' = [environment |-> environment, policies |-> pols]
    /\ LET r == Construct(environment, pols)
       IN  /\ error' = r.error
           /\ built' = (r.error = "none")
           /\ env' = r.env
           /\ policies' = r.policies
    /\ _done' = FALSE
    /\ _succeeded' = FALSE
    /\ UNCHANGED <<op, pc, i, deterministic, render, rewards, num_steps,
                   use_terminating_condition, t, total_rewards, retval, calls,
                   stepOut, ledger, entry, file>>

(***************************************************************************)
(* Bookkeeping of the client's calls and of the collaborator calls.        *)
(***************************************************************************)
\* a call on the environment
EnvCall(name) == [name |-> name, policy |-> "-", idx |-> 0, det |-> FALSE]
\* a call on the policy at position k of self.policies
PolicyCall(name, k, det) == [name |-> name, policy |-> policies[k], idx |-> k, det |-> det]
\* env.step(actions), with the actions that policy k's act returned
EnvStepCall(k) == [name |-> "env.step", policy |-> policies[k], idx |-> k, det |-> FALSE]

\* the flags as the client sees them
Flags == [done |-> _done, succeeded |-> _succeeded]

\* the property succeeded, lines 106-111
succeeded == _succeeded

\* mutant of failed: the negation is missing
failedNotNegated == succeeded

\* the property failed, lines 113-118
failed == ~succeeded

\* is_finished(), has_succeeded(), has_failed(), lines 186-202
is_finished == _done
has_succeeded == succeeded
has_failed == failed

\* policy.model and policy.actions of a policy object p
Model(p) == [policy |-> p, attr |-> "model"]
Actions(p) == [policy |-> p, attr |-> "actions"]

\* s[n] of a Python list s: the element, or IndexError
IndexError == [kind |-> "IndexError", items |-> <<>>]
Subscript(s, n) ==
    IF 0 <= n /\ n < Len(s) THEN Obj(s[n + 1])
    ELSE IF -Len(s) <= n /\ n < 0 THEN Obj(s[Len(s) + n + 1])
    ELSE IndexError

\* [policy.model for policy in self.policies], and the same for actions
Models == [k \in 1..Len(policies) |-> Model(policies[k])]
ActionsList == [k \in 1..Len(policies) |-> Actions(policies[k])]

\* mutant of policy: the list is returned whatever its length
policyNeverCollapsed == List(policies)

\* the property policy, lines 134-141
policy == IF Len(policies) = 1 THEN Obj(policies[1]) ELSE List(policies)

\* the property learning_model, lines 143-150
learning_model == IF Len(policies) = 1 THEN Obj(Model(policies[1])) ELSE List(Models)

\* the property actions, lines 173-180
actions == IF Len(policies) = 1 THEN Obj(Actions(policies[1])) ELSE List(ActionsList)

\* get_policy(idx), lines 278-290; idx is NoneNumber or Finite(n)
get_policy(idx) ==
    IF idx = NoneNumber THEN List(policies) ELSE Subscript(policies, idx.n)

\* get_learning_model(idx), lines 292-304
get_learning_model(idx) ==
    IF idx = NoneNumber THEN List(Models) ELSE Subscript(Models, idx.n)

\* the client enters method m: a fresh frame, the locals of the last call are gone
Enter(m) ==
    /\ built
    /\ pc = "idle"
    /\ op' = m
    /\ calls' = <<>>
    /\ retval' = NoValue
    /\ entry' = [afterReset |-> (op = "reset"), done |-> _done, succeeded |-> _succeeded]
    /\ i' = 0
    /\ rewards' = <<>>
    /\ stepOut' = <<>>
    /\ nsteps' = 0
    /\ firstDone' = 0
    /\ paid' = [k \in 1..Len(policies) |-> 0]
    /\ stepSum' = [k \in 1..Len(policies) |-> 0]
    /\ t' = 0

\* the frame of a call that is not a run holds no arguments of run
NoRunArgs ==
    /\ num_steps' = Finite(0)
    /\ use_terminating_condition' = FALSE
    /\ total_rewards' = <<>>

\* the method the client is in returns v
Return(v) ==
    /\ pc' = "idle"
    /\ retval' = v
    /\ UNCHANGED op

(***************************************************************************)
(* Task.reset                                                              *)
(***************************************************************************)
\* mutant of ResetFlags: reset leaves self._done as it is
ResetFlagsKeepDone == [done |-> _done, succeeded |-> FALSE]

\* lines 209-210: the values reset assigns to the flags
ResetFlags == [done |-> FALSE, succeeded |-> FALSE]

\* the client calls reset(): lines 209-210
Reset ==
    /\ Enter("reset")
    /\ _done' = ResetFlags.done
    /\ _succeeded' = ResetFlags.succeeded
    /\ pc' = "reset_env"
    /\ NoRunArgs
    /\ deterministic' = TRUE
    /\ render' = FALSE
    /\ UNCHANGED <<taskVars>>

\* mutant of EnvReset: reset goes on to the policies without calling env.reset
EnvResetSkipped ==
    /\ pc = "reset_env"
    /\ i' = 1
    /\ pc' = "reset_policies"
    /\ UNCHANGED <<taskVars, _done, _succeeded, op, stepArgs, rewards, runVars,
                   retval, calls, stepOut, ledger, entry>>

\* line 212: self.env.reset()
EnvReset ==
    /\ pc = "reset_env"
    /\ calls' = Append(calls, EnvCall("env.reset"))
    /\ i' = 1
    /\ pc' = "reset_policies"
    /\ UNCHANGED <<taskVars, _done, _succeeded, op, stepArgs, rewards, runVars,
                   retval, stepOut, ledger, entry>>

\* lines 213-214: policy.reset() for the next policy of the for loop
PolicyReset ==
    /\ pc = "reset_policies"
    /\ i <= Len(policies)
    /\ calls' = Append(calls, PolicyCall("policy.reset", i, FALSE))
    /\ i' = i + 1
    /\ UNCHANGED <<taskVars, _done, _succeeded, op, pc, stepArgs, rewards, runVars,
                   retval, stepOut, ledger, entry>>

\* the for loop of reset is exhausted: reset returns None, to the client or to run
ResetReturn ==
    /\ pc = "reset_policies"
    /\ i > Len(policies)
    /\ IF op = "reset"
       THEN /\ Return(None)
            /\ UNCHANGED <<_done, _succeeded>>
       ELSE /\ pc' = "run_loop"
            /\ UNCHANGED <<_done, _succeeded, op, retval>>
    /\ UNCHANGED <<taskVars, i, stepArgs, rewards, runVars, calls, stepOut, ledger, entry>>

(***************************************************************************)
(* Task.step                                                               *)
(***************************************************************************)
\* the client calls step(deterministic=det, render=ren)
Step(det, ren) ==
    /\ Enter("step")
    /\ deterministic' = det
    /\ render' = ren
    /\ pc' = "step_display"
    /\ NoRunArgs
    /\ UNCHANGED <<taskVars, _done, _succeeded>>

\* mutant of DisplayCall: render and hide are exchanged
DisplayCallInverted(ren) == IF ren THEN EnvCall("env.hide") ELSE EnvCall("env.render")

\* lines 259-262: the display call step makes
DisplayCall(ren) == IF ren THEN EnvCall("env.render") ELSE EnvCall("env.hide")

\* lines 259-265: env.render() or env.hide(), then rewards = []
EnvDisplay ==
    /\ pc = "step_display"
    /\ calls' = Append(calls, DisplayCall(render))
    /\ rewards' = <<>>
    /\ stepOut' = <<>>
    /\ i' = 1
    /\ pc' = "step_policies"
    /\ UNCHANGED <<taskVars, _done, _succeeded, op, stepArgs, runVars, retval, ledger, entry>>

\* line 268: actions = policy.act(policy.states, deterministic=deterministic)
PolicyAct ==
    /\ pc = "step_policies"
    /\ i <= Len(policies)
    /\ calls' = Append(calls, PolicyCall("policy.act", i, deterministic))
    /\ pc' = "step_env"
    /\ UNCHANGED <<taskVars, _done, _succeeded, op, i, stepArgs, rewards, runVars,
                   retval, stepOut, ledger, entry>>

\* mutant of DoneAfterEnvStep: a termination report is never overwritten
DoneAfterEnvStepSticky(current, reported) == current \/ reported

\* line 270: the value step stores in self._done after an env.step call that
\* reported `reported`, the flag being `current` before it
DoneAfterEnvStep(current, reported) == reported

\* lines 269-274: obs, rew, done, info = self.env.step(actions); the environment
\* chooses rew and done
EnvStep ==
    /\ pc = "step_env"
    /\ \E rew \in Rewards, done \in BOOLEAN :
          /\ stepOut' = Append(stepOut, [rew |-> rew, done |-> done])
          /\ _done' = DoneAfterEnvStep(_done, done)
          /\ rewards' = Append(rewards, rew)
          /\ paid' = [paid EXCEPT ![i] = @ + rew]
    /\ calls' = Append(calls, EnvStepCall(i))
    /\ i' = i + 1
    /\ pc' = "step_policies"
    /\ UNCHANGED <<taskVars, _succeeded, op, stepArgs, runVars, retval, nsteps, firstDone,
                   stepSum, entry>>

\* mutant of StepResult: the rewards come back newest first
StepResultReversed(rews) == Array([k \in 1..Len(rews) |-> rews[Len(rews) + 1 - k]])

\* line 276: the value step returns
StepResult(rews) == Array(rews)

\* the for loop of step is exhausted: step returns np.array(rewards), to the
\* client or to run
StepReturn ==
    /\ pc = "step_policies"
    /\ i > Len(policies)
    /\ IF op = "step"
       THEN /\ Return(StepResult(rewards))
            /\ UNCHANGED <<_done, _succeeded>>
       ELSE /\ pc' = "run_accumulate"
            /\ UNCHANGED <<_done, _succeeded, op, retval>>
    /\ nsteps' = nsteps + 1
    /\ firstDone' = IF firstDone = 0 /\ _done THEN nsteps + 1 ELSE firstDone
    /\ stepSum' = [k \in 1..Len(stepSum) |-> stepSum[k] + StepResult(rewards).val[k]]
    /\ UNCHANGED <<taskVars, i, stepArgs, rewards, runVars, calls, stepOut, paid, entry>>

(***************************************************************************)
(* Task.run                                                                *)
(***************************************************************************)
\* the num_steps arguments the client tries: None or an int
NumStepsArgs == {NoneNumber} \cup {Finite(n) : n \in 0..MaxNumSteps}

\* lines 227-228
NormaliseNumSteps(n) == IF n = NoneNumber THEN Infty ELSE n

\* line 231: np.zeros(n)
Zeros(n) == [k \in 1..n |-> 0]

\* mutant of CounterReached: the loop test is t > num_steps
CounterReachedLate(count, n) == IF n = Infty THEN FALSE ELSE count > n.n

\* line 235: t >= num_steps
CounterReached(count, n) == IF n = Infty THEN FALSE ELSE count >= n.n

\* mutant of Accumulate: total_rewards = rewards
AccumulateOverwrite(total, rews) == rews

\* line 240: total_rewards += rewards
Accumulate(total, rews) == [k \in 1..Len(total) |-> total[k] + rews[k]]

\* mutant of Terminated: the loop breaks on done whatever the flag is
TerminatedIgnoringFlag(utc, done) == done

\* line 241: use_terminating_condition and self._done
Terminated(utc, done) == utc /\ done

\* lines 246-248: the value run returns
RunResult(total) == IF Len(total) = 1 THEN Scalar(total[1]) ELSE Array(total)

\* mutant of Run: run enters its loop without calling reset
RunWithoutReset(n, utc, ren) ==
    /\ Enter("run")
    /\ num_steps' = NormaliseNumSteps(n)
    /\ use_terminating_condition' = utc
    /\ render' = ren
    /\ total_rewards' = Zeros(Len(policies))
    /\ deterministic' = TRUE
    /\ pc' = "run_loop"
    /\ UNCHANGED <<taskVars, _done, _succeeded>>

\* the client calls run(num_steps=n, use_terminating_condition=utc, render=ren):
\* lines 227-232, up to the flag assignments of the reset it calls; dt only
\* paces the loop (time.sleep) and changes no state
Run(n, utc, ren) ==
    /\ Enter("run")
    /\ num_steps' = NormaliseNumSteps(n)
    /\ use_terminating_condition' = utc
    /\ render' = ren
    /\ total_rewards' = Zeros(Len(policies))
    /\ deterministic' = TRUE
    /\ _done' = ResetFlags.done
    /\ _succeeded' = ResetFlags.succeeded
    /\ pc' = "reset_env"
    /\ UNCHANGED <<taskVars>>

\* lines 234-237: the loop test, then the call of step(render=render); a run
\* with num_steps = None is followed for MaxNumSteps steps
RunLoop ==
    /\ pc = "run_loop"
    /\ IF CounterReached(t, num_steps)
       THEN /\ pc' = "run_return"
            /\ UNCHANGED deterministic
       ELSE /\ t < MaxNumSteps
            /\ deterministic' = TRUE
            /\ pc' = "step_display"
    /\ UNCHANGED <<taskVars, _done, _succeeded, op, i, render, rewards, num_steps,
                   use_terminating_condition, t, total_rewards, retval, calls, stepOut,
                   ledger, entry>>

\* lines 237-243: rewards = self.step(...) has returned; accumulate, test the
\* terminating condition, sleep, next t
RunAccumulate ==
    /\ pc = "run_accumulate"
    /\ total_rewards' = Accumulate(total_rewards, StepResult(rewards).val)
    /\ stepOut' = <<>>
    /\ IF Terminated(use_terminating_condition, _done)
       THEN /\ pc' = "run_return"
            /\ UNCHANGED t
       ELSE /\ t' = t + 1
            /\ pc' = "run_loop"
    /\ UNCHANGED <<taskVars, _done, _succeeded, op, i, stepArgs, rewards, num_steps,
                   use_terminating_condition, retval, calls, ledger, entry>>

\* lines 246-248: run returns
RunReturn ==
    /\ pc = "run_return"
    /\ Return(RunResult(total_rewards))
    /\ UNCHANGED <<taskVars, _done, _succeeded, i, stepArgs, rewards, runVars, calls,
                   stepOut, ledger, entry>>

(***************************************************************************)
(* The client: constructs a Task, then calls its methods one at a time.    *)
(***************************************************************************)
Next ==
    \/ \E environment \in EnvironmentArgs, pols \in PoliciesArgs : TaskInit(environment, pols)
    \/ Reset
    \/ EnvReset
    \/ PolicyReset
    \/ ResetReturn
    \/ \E det \in BOOLEAN, ren \in BOOLEAN : Step(det, ren)
    \/ EnvDisplay
    \/ PolicyAct
    \/ EnvStep
    \/ StepReturn
    \/ \E n \in NumStepsArgs, utc \in BOOLEAN, ren \in BOOLEAN : Run(n, utc, ren)
    \/ RunLoop
    \/ RunAccumulate
    \/ RunReturn

Spec == Init /\ [][Next]_vars

\* the steps the Task takes by itself once the client has called a method
Internal ==
    \/ EnvReset
    \/ PolicyReset
    \/ ResetReturn
    \/ EnvDisplay
    \/ PolicyAct
    \/ EnvStep
    \/ StepReturn
    \/ RunLoop
    \/ RunAccumulate
    \/ RunReturn

\* single-threaded, synchronous execution: a method that was called goes on as
\* long as it has a next statement, every collaborator call returning
FairSpec == Spec /\ WF_vars(Internal)

(***************************************************************************)
(* Collaborator calls that raise.  reset, step and run have no try block:  *)
(* the exception leaves the method that made the call, and run when that   *)
(* method was called by run.                                               *)
(***************************************************************************)
\* the exception raised by the n-th collaborator call of the client's call
Raised(n) == [kind |-> "raise", val |-> <<n>>]

\* mutant of Raises: the exception is swallowed and the method goes on
RaisesSwallowed(call) ==
    /\ retval.kind # "raise"
    /\ calls' = Append(calls, call)
    /\ retval' = Raised(Len(calls) + 1)
    /\ UNCHANGED <<taskVars, _done, _succeeded, op, pc, i, stepArgs, rewards, runVars,
                   stepOut, ledger, entry>>

\* mutant of Raises: leaving the method clears self._done
RaisesClearingDone(call) ==
    /\ calls' = Append(calls, call)
    /\ retval' = Raised(Len(calls) + 1)
    /\ pc' = "idle"
    /\ rewards' = <<>>
    /\ NoRunArgs
    /\ t' = 0
    /\ paid' = [k \in 1..Len(policies) |-> 0]
    /\ stepSum' = [k \in 1..Len(policies) |-> 0]
    /\ _done' = FALSE
    /\ UNCHANGED <<taskVars, _succeeded, op, i, stepArgs, stepOut, nsteps,
                   firstDone, entry>>

\* the collaborator call `call` raises: the frames of step/reset and of run are
\* left at once, their locals are gone, the client gets the exception
Raises(call) ==
    /\ calls' = Append(calls, call)
    /\ retval' = Raised(Len(calls) + 1)
    /\ pc' = "idle"
    /\ rewards' = <<>>
    /\ NoRunArgs
    /\ t' = 0
    /\ paid' = [k \in 1..Len(policies) |-> 0]
    /\ stepSum' = [k \in 1..Len(policies) |-> 0]
    /\ UNCHANGED <<taskVars, _done, _succeeded, op, i, stepArgs, stepOut, nsteps,
                   firstDone, entry>>

\* line 212: self.env.reset() raises
EnvResetRaises == pc = "reset_env" /\ Raises(EnvCall("env.reset"))

\* line 214: policy.reset() raises
PolicyResetRaises ==
    /\ pc = "reset_policies"
    /\ i <= Len(policies)
    /\ Raises(PolicyCall("policy.reset", i, FALSE))

\* lines 259-262: self.env.render() or self.env.hide() raises
EnvDisplayRaises == pc = "step_display" /\ Raises(DisplayCall(render))

\* line 268: policy.act(...) raises
PolicyActRaises ==
    /\ pc = "step_policies"
    /\ i <= Len(policies)
    /\ Raises(PolicyCall("policy.act", i, deterministic))

\* line 269: self.env.step(actions) raises, before line 270
EnvStepRaises == pc = "step_env" /\ Raises(EnvStepCall(i))

NextRaise ==
    \/ Next
    \/ EnvResetRaises
    \/ PolicyResetRaises
    \/ EnvDisplayRaises
    \/ PolicyActRaises
    \/ EnvStepRaises

SpecRaise == Init /\ [][NextRaise]_vars

(***************************************************************************)
(* Calls that return at once: save, load, copy, deepcopy.                  *)
(***************************************************************************)
\* the client calls m, which makes no collaborator call and returns v
Call(m, v) ==
    /\ built
    /\ pc = "idle"
    /\ op' = m
    /\ calls' = <<>>
    /\ retval' = v
    /\ entry' = [afterReset |-> (op = "reset"), done |-> _done, succeeded |-> _succeeded]
    /\ i' = 0
    /\ rewards' = <<>>
    /\ stepOut' = <<>>
    /\ nsteps' = 0
    /\ firstDone' = 0
    /\ paid' = [k \in 1..Len(policies) |-> 0]
    /\ stepSum' = [k \in 1..Len(policies) |-> 0]
    /\ t' = 0
    /\ NoRunArgs
    /\ deterministic' = TRUE
    /\ render' = FALSE
    /\ UNCHANGED <<args, built, error, env, policies, _done, _succeeded, pc>>

\* a Task object handed to the client
TaskValue(task) == [kind |-> "task", val |-> <<task>>]

(***************************************************************************)
(* Task.save and Task.load                                                 *)
(***************************************************************************)
\* the object graph pickle serializes: the attributes of the Task
Pickled == [env |-> env, policies |-> policies, done |-> _done, succeeded |-> _succeeded]

\* line 308: open(filename, 'wb')
SaveMode == "wb"
\* line 313: open(filename, 'r')
LoadMode == "r"

\* pickle.load on the file f opened with `mode` (the module imports
\* collections.abc, so the interpreter is Python 3): the stream of a text-mode
\* open yields str, which pickle.load rejects (TypeError, or UnicodeDecodeError
\* while the bytes are decoded)
Unpickle(f, mode) ==
    IF mode = "rb"
    THEN TaskValue(f.task[1])
    ELSE [kind |-> "TypeError", val |-> <<>>]

\* the client calls save(filename): line 308
Save ==
    /\ Call("save", None)
    /\ file' = [mode |-> SaveMode, task |-> <<Pickled>>]

\* the client calls Task.load(filename) on a file that save wrote: line 313
Load ==
    /\ file # NoFile
    /\ Call("load", Unpickle(file, LoadMode))
    /\ UNCHANGED file

NextPersist ==
    \/ Next
    \/ Save
    \/ Load

SpecPersist == Init /\ [][NextPersist]_vars

(***************************************************************************)
(* Task.__copy__ and Task.__deepcopy__                                     *)
(***************************************************************************)
\* the object x itself
Original(x) == [of |-> x, nth |-> 0]
\* the n-th duplicate of the object x made with one memo table
Duplicate(x, n) == [of |-> x, nth |-> n]

\* the Task object
Self == "task"

\* the objects a collaborator holds references to: every policy refers to the
\* environment of the Task
Refs(x) == IF x \in PolicyObjs THEN <<env>> ELSE <<>>

\* mutant of InitialFlags: the constructor takes over the flags of the Task
InitialFlagsCarried == [done |-> _done, succeeded |-> _succeeded]

\* lines 92-93: the flags of a Task the constructor returns
InitialFlags == [done |-> FALSE, succeeded |-> FALSE]

\* mutant of Lookup: the memo table is never consulted
LookupMiss(m, x) == 0

\* memo.get(id(x)): the position of the entry of x in the memo table m, 0 if
\* there is none
Lookup(m, x) ==
    LET hits == {k \in 1..Len(m) : m[k].orig = x}
    IN  IF hits = {} THEN 0 ELSE CHOOSE k \in hits : \A j \in hits : j <= k

\* memo[x] = ...: a dict keeps one entry per key, at the place of the first
Put(m, e) ==
    IF Lookup(m, e.orig) = 0 THEN Append(m, e) ELSE [m EXCEPT ![Lookup(m, e.orig)] = e]

\* how many duplicates of x the table m holds
Made(m, x) == Cardinality({k \in 1..Len(m) : m[k].orig = x})

RECURSIVE Deepcopy(_, _)
RECURSIVE DeepcopyAll(_, _)

\* copy.deepcopy(x, memo) of lines 338-339: the duplicate recorded in the memo
\* table if there is one, else a new duplicate, recorded in the table, whose
\* references are deep copies made with the same table
Deepcopy(x, m) ==
    IF Lookup(m, x) # 0
    THEN [obj |-> m[Lookup(m, x)].copy, refs |-> m[Lookup(m, x)].refs, memo |-> m]
    ELSE LET y == Duplicate(x, Made(m, x) + 1)
             at == Len(m) + 1
             inner == DeepcopyAll(Refs(x), Append(m, [orig |-> x, copy |-> y, refs |-> <<>>]))
         IN  [obj |-> y,
              refs |-> inner.objs,
              memo |-> [inner.memo EXCEPT ![at].refs = inner.objs]]

\* the deep copies of the objects of the sequence s, made one after the other
DeepcopyAll(s, m) ==
    IF s = <<>>
    THEN [objs |-> <<>>, refs |-> <<>>, memo |-> m]
    ELSE LET first == Deepcopy(Head(s), m)
             rest == DeepcopyAll(Tail(s), first.memo)
         IN  [objs |-> <<first.obj>> \o rest.objs,
              refs |-> <<first.refs>> \o rest.refs,
              memo |-> rest.memo]

\* mutant of ShallowClone: the clone is bound to duplicates
ShallowCloneDuplicating ==
    [id |-> Duplicate(Self, 1),
     env |-> Duplicate(env, 1),
     policies |-> [k \in 1..Len(policies) |-> Duplicate(policies[k], 1)],
     refs |-> [k \in 1..Len(policies) |-> <<Duplicate(env, 1)>>],
     done |-> InitialFlags.done,
     succeeded |-> InitialFlags.succeeded]

\* lines 328-330: self.__class__(environment=self.environment, policies=self.policies),
\* a new Task bound by the constructor to the objects it is given
ShallowClone ==
    LET r == Construct(env, List(policies))
    IN  [id |-> Duplicate(Self, 1),
         env |-> Original(r.env),
         policies |-> [k \in 1..Len(r.policies) |-> Original(r.policies[k])],
         refs |-> [k \in 1..Len(r.policies) |->
                      [j \in 1..Len(Refs(r.policies[k])) |-> Original(Refs(r.policies[k])[j])]],
         done |-> InitialFlags.done,
         succeeded |-> InitialFlags.succeeded]

\* lines 338-344 with the memo table m: the new Task, and the table as the call
\* leaves it
DeepClone(m) ==
    LET e == Deepcopy(env, m)
        ps == DeepcopyAll(policies, e.memo)
        task == [id |-> Duplicate(Self, Made(m, Self) + 1),
                 env |-> e.obj,
                 policies |-> ps.objs,
                 refs |-> ps.refs,
                 done |-> InitialFlags.done,
                 succeeded |-> InitialFlags.succeeded]
    IN  [task |-> task,
         memo |-> Put(ps.memo, [orig |-> Self, copy |-> task.id,
                                refs |-> <<task.env>> \o task.policies])]

\* the memo tables __deepcopy__ is called with: an empty one, one in which the
\* copying pass has already duplicated the environment, and one that an
\* earlier deep copy of the Task has filled (so is the table of the default
\* argument memo={} from the second call on)
MemoArgs == {<<>>, Deepcopy(env, <<>>).memo, DeepClone(<<>>).memo}

\* what a deep copy hands to the client: the clone, the memo table as it was
\* passed and as it is left
DeepCopyValue(task, given, left) == [kind |-> "task", val |-> <<task, given, left>>]

\* the client calls copy.copy(task): lines 328-330
Copy ==
    /\ Call("copy", TaskValue(ShallowClone))
    /\ UNCHANGED file

\* the client calls task.__deepcopy__(memo): lines 332-346
DeepCopy(m) ==
    /\ Call("deepcopy", DeepCopyValue(DeepClone(m).task, m, DeepClone(m).memo))
    /\ UNCHANGED file

NextClone ==
    \/ Next
    \/ Copy
    \/ \E m \in MemoArgs : DeepCopy(m)

SpecClone == Init /\ [][NextClone]_vars

(***************************************************************************)
(* Vocabulary of the properties.                                           *)
(***************************************************************************)
\* number of policies of the Task
N == Len(policies)

\* the client's call of method m has returned, and no other call was made since
Returned(m) == built /\ pc = "idle" /\ op = m

\* a Task.step call has just returned, to the client or to run
StepReturned == Returned("step") \/ pc = "run_accumulate"

\* the value that Task.step call returned
StepValue == IF pc = "idle" THEN retval ELSE StepResult(rewards)

\* the total a run over n policies returns when the per-policy totals are v
Total(v) == IF Len(v) = 1 THEN Scalar(v[1]) ELSE Array(v)

\* the vector of n entries x
Const(n, x) == [k \in 1..n |-> x]

Min(a, b) == IF a <= b THEN a ELSE b

(***************************************************************************)
(* C1: a run with a finite num_steps = k and use_terminating_condition =   *)
(* False over N >= 1 policies executes exactly k steps and returns the     *)
(* component-wise sum of the reward vectors its steps returned, as a       *)
(* scalar when N = 1 and as a vector of N totals when N >= 2; when every   *)
(* env.step call returned reward 1 the result is k, or [k, ..., k].        *)
(***************************************************************************)
RunAccumulation ==
    (Returned("run") /\ N >= 1 /\ num_steps # Infty /\ ~use_terminating_condition) =>
        /\ nsteps = num_steps.n
        /\ retval = Total(stepSum)
        /\ retval.kind = IF N = 1 THEN "scalar" ELSE "array"
        /\ Len(retval.val) = N
        /\ (paid = Const(N, nsteps)) => (retval = Total(Const(N, num_steps.n)))

\* run(num_steps=MaxNumSteps) over two policies returned [MaxNumSteps, MaxNumSteps]
RunAccumulationWitness ==
    /\ Returned("run")
    /\ N = 2
    /\ num_steps = Finite(MaxNumSteps)
    /\ ~use_terminating_condition
    /\ paid = Const(2, MaxNumSteps)
    /\ retval = Array(Const(2, MaxNumSteps))

(***************************************************************************)
(* C2: with use_terminating_condition = True a run with a finite           *)
(* num_steps = k executes exactly min(k, j) steps, j being the first step  *)
(* after which done is true (k steps when there is none), and returns the  *)
(* rewards of exactly those steps; with use_terminating_condition = False  *)
(* it executes exactly k steps whatever done is.                           *)
(***************************************************************************)
EarlyTermination ==
    (Returned("run") /\ num_steps # Infty) =>
        /\ use_terminating_condition =>
              /\ nsteps = IF firstDone # 0 THEN Min(num_steps.n, firstDone) ELSE num_steps.n
              /\ firstDone # 0 => (nsteps = firstDone /\ _done)
        /\ ~use_terminating_condition => nsteps = num_steps.n
        /\ retval = Total(stepSum)

\* a run of MaxNumSteps steps at most stopped after its first step, which ended done
EarlyTerminationWitness ==
    /\ Returned("run")
    /\ use_terminating_condition
    /\ num_steps = Finite(MaxNumSteps)
    /\ firstDone = 1
    /\ nsteps = 1
    /\ N >= 1

(***************************************************************************)
(* C3: every Task.step returns a reward sequence of exactly N entries,     *)
(* entry k being the reward returned by the env.step call made with the    *)
(* action of the k-th policy; one Task.step makes exactly N env.step calls.*)
(***************************************************************************)
\* the collaborator calls of the Task.step that returned last: those from its
\* display call on
RECURSIVE LastStepCalls(_)
LastStepCalls(log) ==
    IF log = <<>> THEN <<>>
    ELSE IF log[Len(log)].name \in {"env.render", "env.hide"}
         THEN <<log[Len(log)]>>
         ELSE Append(LastStepCalls(SubSeq(log, 1, Len(log) - 1)), log[Len(log)])

IsEnvStep(c) == c.name = "env.step"

RewardVectorShape ==
    StepReturned =>
        /\ StepValue.kind = "array"
        /\ Len(StepValue.val) = N
        /\ Len(stepOut) = N
        /\ \A k \in 1..N : StepValue.val[k] = stepOut[k].rew
        /\ LET made == SelectSeq(LastStepCalls(calls), IsEnvStep)
           IN  /\ Len(made) = N
               /\ \A k \in 1..N : made[k].idx = k /\ made[k].policy = policies[k]

\* step() on Task(env, [p2, p1]) returned [0, 1]
RewardVectorShapeWitness ==
    /\ Returned("step")
    /\ policies = <<"p2", "p1">>
    /\ stepOut[1].rew = 0
    /\ stepOut[2].rew = 1
    /\ retval = Array(<<0, 1>>)

(***************************************************************************)
(* C4: done is false after construction and after reset, and after any     *)
(* step during which some env.step call returned done = true the Task's    *)
(* done flag is true, for any number of policies.                          *)
(***************************************************************************)
\* an env.step call of the Task.step that just returned reported termination
TerminationReported == \E k \in 1..Len(stepOut) : stepOut[k].done

DoneReflectsTermination ==
    /\ (built /\ op = "none") => ~_done
    /\ Returned("reset") => ~_done
    /\ (StepReturned /\ TerminationReported) => _done

(***************************************************************************)
(* C5: after a Task.step over N >= 1 policies has returned, done equals    *)
(* the done value returned by the env.step call made for the last policy;  *)
(* earlier reports of the same step do not survive.                        *)
(***************************************************************************)
LastPolicyWins ==
    (StepReturned /\ N >= 1) => (_done = stepOut[N].done)

\* done was true when step was called, no reset in between, and the step left
\* done false although the environment reported termination for its first policy
LastPolicyWinsWitness ==
    /\ Returned("step")
    /\ N = 2
    /\ entry.done
    /\ stepOut[1].done
    /\ ~stepOut[2].done
    /\ ~_done

(***************************************************************************)
(* C6: every run, for every num_steps (0 included) and whatever the flags  *)
(* were, resets exactly once before any step: env.reset and every          *)
(* policy.reset come before the first display, act or env.step call, done  *)
(* and succeeded are false when the first step begins, and                 *)
(* run(num_steps=0) resets, executes no step and returns a zero total.     *)
(***************************************************************************)
\* the collaborator calls of one reset: the environment, then the policies in
\* index order
ResetCalls ==
    <<EnvCall("env.reset")>> \o [k \in 1..N |-> PolicyCall("policy.reset", k, FALSE)]

IsPrefix(a, b) == Len(a) <= Len(b) /\ SubSeq(b, 1, Len(a)) = a

RunResetsFirst ==
    (built /\ op = "run") =>
        /\ IF pc \in {"reset_env", "reset_policies"}
           THEN IsPrefix(calls, ResetCalls)
           ELSE IsPrefix(ResetCalls, calls)
        /\ \A k \in 1..Len(calls) :
              calls[k].name \in {"env.reset", "policy.reset"} => k <= N + 1
        /\ (pc = "step_display" /\ nsteps = 0) => (~_done /\ ~_succeeded)
        /\ (pc = "idle" /\ num_steps = Finite(0)) =>
              /\ nsteps = 0
              /\ calls = ResetCalls
              /\ retval = Total(Const(N, 0))

\* run(num_steps=1) was called with done true and has returned: one reset, then
\* one step over two policies
RunResetsFirstWitness ==
    /\ Returned("run")
    /\ entry.done
    /\ num_steps = Finite(1)
    /\ N = 2
    /\ Len(calls) = 8
    /\ calls[1].name = "env.reset"
    /\ calls[2].name = "policy.reset"
    /\ calls[3].name = "policy.reset"
    /\ calls[4].name \in {"env.render", "env.hide"}
    /\ calls[8].name = "env.step"

(***************************************************************************)
(* C7: reset() sets done and succeeded to false, then calls env.reset      *)
(* exactly once, then reset on every policy exactly once in index order,   *)
(* and returns nothing.                                                    *)
(***************************************************************************)
ResetOrder ==
    (built /\ op = "reset") =>
        /\ ~_done
        /\ ~_succeeded
        /\ IsPrefix(calls, ResetCalls)
        /\ pc = "reset_env" => calls = <<>>
        /\ pc = "reset_policies" => Len(calls) = i
        /\ pc = "idle" => (calls = ResetCalls /\ retval = None)

\* reset() was called with done true on Task(env, [p2, p1]) and has returned
ResetOrderWitness ==
    /\ Returned("reset")
    /\ entry.done
    /\ policies = <<"p2", "p1">>
    /\ Len(calls) = 3
    /\ calls[2].policy = "p2"
    /\ calls[3].policy = "p1"

(***************************************************************************)
(* C8: calling reset() twice in a row leaves done = False and              *)
(* succeeded = False, the flag state the first of the two calls left.      *)
(***************************************************************************)
ResetIdempotent ==
    (Returned("reset") /\ entry.afterReset) =>
        /\ ~_done
        /\ ~_succeeded
        /\ Flags = [done |-> entry.done, succeeded |-> entry.succeeded]

\* the second of two consecutive resets has returned
ResetIdempotentWitness ==
    /\ Returned("reset")
    /\ entry.afterReset
    /\ N = 2
    /\ calls = ResetCalls

(***************************************************************************)
(* C9: Task(environment, policies) succeeds when environment is an Env and *)
(* policies is a Policy or an iterable of Policy elements only; it raises  *)
(* a TypeError when environment is not an Env, when an element of an       *)
(* iterable policies is not a Policy, or when policies is neither a Policy *)
(* nor an iterable; the environment is checked first, and a failed         *)
(* construction yields no Task.                                            *)
(***************************************************************************)
\* policies is a single Policy or an iterable whose elements are all policies
AcceptablePolicies(pols) ==
    \/ pols.kind = "object" /\ pols.items[1] \in PolicyObjs
    \/ pols.kind = "iterable" /\ \A k \in 1..Len(pols.items) : pols.items[k] \in PolicyObjs

PoliciesNeverEmpty ==
    built =>
        /\ Len(policies) >= 1
        /\ policies = args.policies.items


(***************************************************************************)
(* C11: in every reachable state of a base Task, failed is the negation of *)
(* succeeded and has_failed() = not has_succeeded(); the base engine never *)
(* sets succeeded, so succeeded is false and failed is true throughout,    *)
(* also when done is true.                                                 *)
(***************************************************************************)
FailedIsNotSucceeded ==
    built =>
        /\ failed = ~succeeded
        /\ has_failed = ~has_succeeded
        /\ ~succeeded
        /\ failed
        /\ is_finished = _done

\* a step has ended with done true: the Task is finished, not succeeded, failed
FailedIsNotSucceededWitness ==
    /\ Returned("step")
    /\ is_finished
    /\ ~has_succeeded
    /\ has_failed


(***************************************************************************)
(* C12: every collaborator call returning, a run with a finite num_steps   *)
(* terminates after at most num_steps steps; a run with num_steps omitted  *)
(* and use_terminating_condition = False never returns; with num_steps     *)
(* omitted and use_terminating_condition = True it returns if and only if  *)
(* some step ends with done true, right after the first such step.  The    *)
(* only exits of the loop are done being true with the flag set, and the   *)
(* counter reaching num_steps.                                             *)
(***************************************************************************)
\* the run has left its loop
LoopLeft == pc \in {"run_return", "idle"}

RunExits ==
    (built /\ op = "run") =>
        /\ num_steps # Infty => (nsteps <= num_steps.n /\ t <= num_steps.n)
        /\ (num_steps = Infty /\ ~use_terminating_condition) => ~LoopLeft
        /\ (num_steps = Infty /\ LoopLeft) => (firstDone # 0 /\ nsteps = firstDone)
        /\ (use_terminating_condition /\ firstDone # 0) =>
              /\ nsteps = firstDone
              /\ pc \in {"run_accumulate", "run_return", "idle"}
        /\ LoopLeft =>
              \/ use_terminating_condition /\ _done
              \/ num_steps # Infty /\ t >= num_steps.n

\* a run that is bound to end: its num_steps is finite, or the flag is set and
\* a step has ended with done true
BoundToEnd ==
    /\ built
    /\ op = "run"
    /\ pc # "idle"
    /\ \/ num_steps # Infty
       \/ use_terminating_condition /\ firstDone # 0

RunTermination == [](RunExits) /\ (BoundToEnd ~> (pc = "idle"))

\* run() with use_terminating_condition=True returned after its second step,
\* the first that ended with done true
RunTerminationWitness ==
    /\ Returned("run")
    /\ num_steps = Infty
    /\ use_terminating_condition
    /\ firstDone = 2
    /\ nsteps = 2

(***************************************************************************)
(* C18: within one Task.step the collaborator calls are, in this order:    *)
(* one display call (env.render if render is true, env.hide otherwise),    *)
(* then for each policy in policy order its act, with the deterministic    *)
(* flag of the step, immediately followed by env.step with that action,    *)
(* before the next policy acts.                                            *)
(***************************************************************************)
\* the calls of a whole step over the policies, as the claim orders them
StepCallOrder ==
    [j \in 1..(2 * N + 1) |->
        IF j = 1
        THEN [name |-> IF render THEN "env.render" ELSE "env.hide",
              policy |-> "-", idx |-> 0, det |-> FALSE]
        ELSE IF j % 2 = 0
             THEN [name |-> "policy.act", policy |-> policies[j \div 2],
                   idx |-> j \div 2, det |-> deterministic]
             ELSE [name |-> "env.step", policy |-> policies[(j - 1) \div 2],
                   idx |-> (j - 1) \div 2, det |-> FALSE]]

StepCallsInOrder ==
    /\ pc \in {"step_policies", "step_env"} =>
          /\ IsPrefix(LastStepCalls(calls), StepCallOrder)
          /\ Len(LastStepCalls(calls)) = IF pc = "step_env" THEN 2 * i ELSE 2 * i - 1
    /\ StepReturned => LastStepCalls(calls) = StepCallOrder

\* step(deterministic=False, render=True) over two policies has returned
StepCallsInOrderWitness ==
    /\ Returned("step")
    /\ N = 2
    /\ render
    /\ ~deterministic


(***************************************************************************)
(* C17: for a Task with exactly one policy the accessors policy, actions   *)
(* and learning_model each return the single element itself; for a Task    *)
(* with N >= 2 policies they each return a sequence of length N in policy  *)
(* order.  get_policy(idx) and get_learning_model(idx) return the element  *)
(* at idx, and with idx omitted the full sequence.  The client reads them  *)
(* between its calls.                                                      *)
(***************************************************************************)
\* v is the object x itself, not a sequence
IsElement(v, x) == v.kind = "object" /\ v.items = <<x>>

\* v is a list of N entries, entry k being the attribute attr of policy k
IsSequenceOf(v, attr) ==
    /\ v.kind = "iterable"
    /\ Len(v.items) = N
    /\ \A k \in 1..N :
          v.items[k] = [policy |-> policies[k], attr |-> attr]

SingletonCollapse ==
    (built /\ pc = "idle") =>
        /\ N = 1 =>
              /\ IsElement(policy, policies[1])
              /\ IsElement(learning_model, [policy |-> policies[1], attr |-> "model"])
              /\ IsElement(actions, [policy |-> policies[1], attr |-> "actions"])
        /\ N >= 2 =>
              /\ policy.kind = "iterable" /\ policy.items = policies
              /\ IsSequenceOf(learning_model, "model")
              /\ IsSequenceOf(actions, "actions")
        /\ \A idx \in 0..(N - 1) :
              /\ IsElement(get_policy(Finite(idx)), policies[idx + 1])
              /\ IsElement(get_learning_model(Finite(idx)),
                           [policy |-> policies[idx + 1], attr |-> "model"])
        /\ get_policy(NoneNumber).kind = "iterable"
        /\ get_policy(NoneNumber).items = policies
        /\ IsSequenceOf(get_learning_model(NoneNumber), "model")

\* a Task with exactly one policy: the accessor hands out the policy itself,
\* get_policy() the list of one
SingletonCollapseWitness ==
    /\ built
    /\ pc = "idle"
    /\ N = 1
    /\ policy.kind = "object"
    /\ get_policy(NoneNumber).kind = "iterable"
    /\ get_policy(Finite(0)) = policy


(***************************************************************************)
(* C13: if a collaborator call (env.reset, env.render/hide, env.step,      *)
(* policy.act, policy.reset) raises during reset, step or run, the Task    *)
(* operation ends with that same error at once: no collaborator call is    *)
(* made after the failing one (no retry, no remaining policies, no further *)
(* steps), and step/run return no reward value.                            *)
(***************************************************************************)
\* the client's last call ended with an exception
Failed == retval.kind = "raise"

\* the call that raised
FailingCall == calls[Len(calls)]

FailFast ==
    Failed =>
        /\ pc = "idle"
        /\ calls # <<>>
        /\ retval.val = <<Len(calls)>>
        /\ retval.kind \notin {"array", "scalar", "None"}
        /\ op = "reset" => IsPrefix(calls, ResetCalls)
        /\ op = "step" => /\ LastStepCalls(calls) = calls
                          /\ IsPrefix(calls, StepCallOrder)
        /\ op = "run" =>
              \/ IsPrefix(calls, ResetCalls)
              \/ /\ IsPrefix(ResetCalls, calls)
                 /\ IsPrefix(LastStepCalls(calls), StepCallOrder)
                 /\ Len(calls) = Len(ResetCalls) + nsteps * (2 * N + 1)
                                     + Len(LastStepCalls(calls))

\* the env.step call for the second policy raised in the second step of a run
FailFastWitness ==
    /\ Failed
    /\ op = "run"
    /\ nsteps = 1
    /\ FailingCall.name = "env.step"
    /\ FailingCall.idx = 2


(***************************************************************************)
(* C20: reset clears done and succeeded before it calls any collaborator,  *)
(* so when env.reset or a policy.reset raises both flags are already       *)
(* false; in step, when the act or env.step call for policy k raises, done *)
(* holds the value reported by the env.step call for policy k-1 (its       *)
(* pre-step value when k is the first policy) and the environment has been *)
(* advanced k-1 times in that step.                                        *)
(***************************************************************************)
\* the env.step calls of the step in progress that have returned
Advanced ==
    Len(SelectSeq(LastStepCalls(calls), IsEnvStep))
        - (IF Failed /\ FailingCall.name = "env.step" THEN 1 ELSE 0)

StateLeftByFailure ==
    /\ pc \in {"reset_env", "reset_policies"} => (~_done /\ ~_succeeded)
    /\ (Failed /\ FailingCall.name \in {"env.reset", "policy.reset"}) =>
          (~_done /\ ~_succeeded)
    /\ (Failed /\ FailingCall.name \in {"policy.act", "env.step"}) =>
          LET k == FailingCall.idx
          IN  /\ Advanced = k - 1
              /\ Len(stepOut) = k - 1
              /\ k > 1 => _done = stepOut[k - 1].done
              /\ (k = 1 /\ op = "step") => _done = entry.done
              /\ (k = 1 /\ op = "run" /\ nsteps = 0) => ~_done

\* step(): the act call of the second policy raised after the env.step call for
\* the first policy had reported done
StateLeftByFailureWitness ==
    /\ Failed
    /\ op = "step"
    /\ FailingCall.name = "policy.act"
    /\ FailingCall.idx = 2
    /\ ~entry.done
    /\ _done


(***************************************************************************)
(* C14: for a Task in any reachable state, save(path) followed by          *)
(* load(path) succeeds and returns a Task whose environment, policies and  *)
(* flags done and succeeded equal those of the saved Task.                 *)
(***************************************************************************)
SaveLoadRoundTrip ==
    (Returned("load") /\ file.mode = SaveMode) =>
        /\ retval.kind = "task"
        /\ retval.val = file.task


(***************************************************************************)
(* C15: a shallow clone of a Task is a new Task object whose environment   *)
(* is the identical object as the original's and whose policies are the    *)
(* identical policy objects in the same order; creating it duplicates      *)
(* nothing and calls no operation on the environment or the policies.      *)
(***************************************************************************)
\* the Task the last call returned
Clone == retval.val[1]

\* the object o is x itself, not a duplicate of it
IsSame(o, x) == o.of = x /\ o.nth = 0

ShallowCloneAliases ==
    Returned("copy") =>
        /\ retval.kind = "task"
        /\ ~IsSame(Clone.id, "task")
        /\ IsSame(Clone.env, env)
        /\ Len(Clone.policies) = N
        /\ \A k \in 1..N : IsSame(Clone.policies[k], policies[k])
        /\ \A k \in 1..N : \A j \in 1..Len(Clone.refs[k]) : Clone.refs[k][j].nth = 0
        /\ calls = <<>>

\* copy.copy of a Task with two different policies has returned
ShallowCloneAliasesWitness ==
    /\ Returned("copy")
    /\ N = 2
    /\ policies[1] # policies[2]
    /\ IsSame(Clone.policies[2], policies[2])

(***************************************************************************)
(* C16: a deep clone made with one memo table duplicates the environment   *)
(* first and then every policy in order, each object at most once: an      *)
(* object referenced from several places maps to one single duplicate      *)
(* shared by all cloned referrers, no object of the clone is an object of  *)
(* the original, and the original-Task-to-clone mapping is recorded in the *)
(* memo table before the clone is returned.                                *)
(***************************************************************************)
\* the memo table as it was passed to the last __deepcopy__, and as it is left
Given == retval.val[2]
Left == retval.val[3]

\* the objects a memo table has entries for, in the order of the entries
Origs(m) == [k \in 1..Len(m) |-> m[k].orig]

Range(s) == {s[k] : k \in 1..Len(s)}

RECURSIVE Distinct(_)
\* the members of s in the order of their first occurrence
Distinct(s) ==
    IF s = <<>> THEN <<>>
    ELSE LET d == Distinct(SubSeq(s, 1, Len(s) - 1))
         IN  IF s[Len(s)] \in Range(d) THEN d ELSE Append(d, s[Len(s)])

\* the objects the call had to duplicate, in the order the claim gives
ToDuplicate ==
    LET Missing(x) == x \notin Range(Origs(Given))
    IN  SelectSeq(Distinct(<<env>> \o policies), Missing)
            \o (IF "task" \in Range(Origs(Given)) THEN <<>> ELSE <<"task">>)

\* the duplicate the table Left holds for the object x
DuplicateOf(x) == (CHOOSE e \in Range(Left) : e.orig = x).copy

DeepCloneShares ==
    Returned("deepcopy") =>
        /\ retval.kind = "task"
        /\ Origs(Left) = Origs(Given) \o ToDuplicate
        /\ \A j, k \in 1..Len(Left) : Left[j].orig = Left[k].orig => j = k
        /\ \A k \in 1..Len(Given) : Given[k].orig # "task" => Left[k] = Given[k]
        /\ \A k \in 1..Len(Left) : Left[k].copy.of = Left[k].orig /\ Left[k].copy.nth > 0
        /\ \A k \in (Len(Given) + 1)..Len(Left) : Left[k].copy.nth = 1
        /\ Clone.env = DuplicateOf(env)
        /\ Len(Clone.policies) = N
        /\ \A k \in 1..N :
              /\ Clone.policies[k] = DuplicateOf(policies[k])
              /\ Clone.refs[k] = <<Clone.env>>
        /\ Clone.env.nth > 0
        /\ \A k \in 1..N : Clone.policies[k].nth > 0
        /\ Clone.id.nth > 0
        /\ Clone.id = DuplicateOf("task")

\* __deepcopy__ with an empty memo table of a Task with two different
\* policies, which both refer to the environment, has returned
DeepCloneSharesWitness ==
    /\ Returned("deepcopy")
    /\ N = 2
    /\ policies[1] # policies[2]
    /\ Given = <<>>
    /\ Len(Left) = 4
    /\ Clone.refs[1] = Clone.refs[2]

(***************************************************************************)
(* C19: a clone never carries over the episode flags: a shallow clone and  *)
(* a deep clone are built through the constructor, so the clone has done = *)
(* False and succeeded = False even when the original's done is true at    *)
(* the time of cloning, and the original's flags are left unchanged.       *)
(***************************************************************************)
CloneFlagsFresh ==
    (Returned("copy") \/ Returned("deepcopy")) =>
        /\ ~Clone.done
        /\ ~Clone.succeeded
        /\ _done = entry.done
        /\ _succeeded = entry.succeeded

\* a Task whose done is true has been deep-cloned
CloneFlagsFreshWitness ==
    /\ Returned("deepcopy")
    /\ _done
    /\ entry.done
    /\ ~Clone.done

====
